---- MODULE Spec2Model ----
(***************************************************************************)
(* Model of battle.py: a dim x dim target grid is scanned sweep after      *)
(* sweep; every still-unknown cell is probed with one of two measurement   *)
(* circuits, and the scan stops once every non-target cell is confirmed    *)
(* clear.                                                                  *)
(***************************************************************************)
EXTENDS Integers, Sequences, FiniteSets, TLC

(* ---- configuration parameters (battle.py 13-15) ---- *)
cycle_count == 30
max_grid_dim == 10
min_grid_dim == 3

(* ---- bounds of the model ---- *)
\* cycle_executions is unbounded in the program; the probe step is explored
\* while it is below MaxProbes.
MaxProbes == 10
\* In the specifications that check liveness the counters are kept exact
\* below CountCap and stay at CountCap from there on.
CountCap == 2
\* The bit strings given to a single probe_cell call hold at most MaxOnes
\* ones (or ones only).
MaxOnes == 2
\* The interactive prompts repeat without limit; invalid answers are explored
\* while fewer than MaxInvalid messages have been printed.
MaxInvalid == 1

VARIABLES
    pc,                     \* position in the script
    grid_dim, target_count, cell_count,
    target_matrix, placed,
    result_matrix,
    row, col,               \* positions of the scan's row and column iterators
    targets_hit, clear_cells_detected, cycle_executions,
    res_mem,                \* what exec_quantum returned to the last probe
    ret,                    \* <<v>>: the last probe_cell call returned v
    sampler,                \* which Sampler executes the circuits
    sampler_runs,           \* number of circuit executions so far
    invalid_msgs,           \* number of "Invalid ..." messages printed
    local_sim,              \* "None", "True" or "False"
    sim_backend,            \* TRUE once sim_backend is assigned
    sampler_inst,           \* TRUE once sampler_inst is assigned
    comp_qc,                \* the backend the two circuits are compiled for
    hw_failed,              \* "Hardware access failed" has been printed
    ran_on                  \* the backends that have executed a circuit

vars == <<pc, grid_dim, target_count, cell_count, target_matrix, placed,
          result_matrix, row, col, targets_hit, clear_cells_detected,
          cycle_executions, res_mem, ret, sampler, sampler_runs,
          invalid_msgs, local_sim, sim_backend, sampler_inst, comp_qc, hw_failed,
          ran_on>>

backend_vars == <<local_sim, sim_backend, sampler_inst, comp_qc, hw_failed>>

Cells(d) == (0 .. d - 1) \X (0 .. d - 1)

zeros(d) == [c \in Cells(d) |-> 0]

NoMem == << >>
NoRet == << >>

(* ---- the Sampler: one shot of a compiled circuit ---- *)
\* The target circuit has cycle_count classical bits, the clear circuit one
\* (battle.py 119-127).
clbits(has_target) == IF has_target THEN cycle_count ELSE 1

AllBits(n, b) == [i \in 1 .. n |-> b]
OneAt(n, k) == [i \in 1 .. n |-> IF i = k THEN 1 ELSE 0]

\* The memory of one shot: a list holding one bit string.  The simulator may
\* return any string; the ones explored are all-zero, all-one and a single 1
\* in the first or the last position.  The stub returns the non-excited bit
\* only.
exec_quantum(kind, n) ==
    IF kind = "stub"
    THEN {<<AllBits(n, 0)>>}
    ELSE {<<AllBits(n, 0)>>, <<AllBits(n, 1)>>, <<OneAt(n, 1)>>, <<OneAt(n, n)>>}

(* ---- probe_cell ---- *)
\* '1' in res_mem[0]
Contains1(s) == \E i \in DOMAIN s : s[i] = 1

\* observe with the target branch reading the first character only
observe_first_char(has_target, mem) ==
    IF has_target
    THEN IF mem[1][1] = 1 THEN 1 ELSE 0
    ELSE IF mem[1][1] = 1 THEN -1 ELSE 0

\* observe with the comparison of the clear branch inverted
observe_inverted(has_target, mem) ==
    IF has_target
    THEN IF Contains1(mem[1]) THEN 1 ELSE 0
    ELSE IF mem[1][1] # 1 THEN -1 ELSE 0

\* the value probe_cell returns: 1 hit, -1 clear, 0 undetermined
observe(has_target, mem) ==
    IF has_target
    THEN IF Contains1(mem[1]) THEN 1 ELSE 0
    ELSE IF mem[1][1] = 1 THEN -1 ELSE 0

\* count_probe with the increment lost
count_probe_lost(n) == n

\* cycle_executions += 1
count_probe(n) == n + 1

\* the same counter in the specifications that check liveness
count_probe_capped(n) == IF n < CountCap THEN n + 1 ELSE CountCap

\* count_hit with the increment placed before the test of the bit string
count_hit_early(has_target, mem, n) ==
    IF has_target THEN n + 1 ELSE n

\* targets_hit += 1 on the Impact branch
count_hit(has_target, mem, n) ==
    IF has_target /\ Contains1(mem[1]) THEN n + 1 ELSE n

\* count_clear with the increment placed before the test of the bit
count_clear_early(has_target, mem, n) ==
    IF ~has_target THEN n + 1 ELSE n

\* clear_cells_detected += 1 on the Clear branch
count_clear(has_target, mem, n) ==
    IF ~has_target /\ mem[1][1] = 1 THEN n + 1 ELSE n

(* ---- the scan loop's tests ---- *)
\* scan_done with a strict comparison
scan_done_strict(clear) == clear + target_count > cell_count

\* scan_done stopping one cell early
scan_done_early(clear) == clear + target_count >= cell_count - 1

\* clear_cells_detected + target_count >= cell_count, the test of the while
\* loop and of the row loop's break
scan_done(clear) == clear + target_count >= cell_count

\* the probe loop without its break
break_never(clear) == FALSE

\* the test evaluated right after a probe, which breaks the column loop
break_after_probe(clear) == clear + target_count >= cell_count

\* every cell taken for unknown
is_unknown_always(v) == TRUE

\* result_matrix[row][col] == 0
is_unknown(v) == v = 0

\* the truth value read with row and column exchanged
has_target_transposed(r, c) == target_matrix[<<c, r>>] # 0

\* bool(target_matrix[row][col])
has_target_at(r, c) == target_matrix[<<r, c>>] # 0

(* ---- start of the script ---- *)
Samplers == {"aer", "stub"}

Init ==
    /\ pc = "args"
    /\ grid_dim = 0 /\ target_count = 0 /\ cell_count = 0
    /\ target_matrix = << >> /\ placed = 0
    /\ result_matrix = << >>
    /\ row = 0 /\ col = 0
    /\ targets_hit = 0 /\ clear_cells_detected = 0 /\ cycle_executions = 0
    /\ res_mem = NoMem /\ ret = NoRet
    /\ sampler \in Samplers
    /\ sampler_runs = 0
    /\ invalid_msgs = 0
    /\ local_sim = "None"
    /\ sim_backend = FALSE /\ sampler_inst = FALSE /\ comp_qc = "none"
    /\ hw_failed = FALSE
    /\ ran_on = {}

(* ---- command-line arguments (dimension and target count given) ---- *)
DimInputs == {min_grid_dim - 1, min_grid_dim, max_grid_dim + 1}
TargetInputs(cells) == {0, 1, 2, cells - 1, cells, cells + 1}

dim_ok(d) == ~(d < min_grid_dim \/ d > max_grid_dim)
\* targets_ok without the upper limit
targets_ok_no_upper(t, cells) == ~(t < 1)

targets_ok(t, cells) == ~(t < 1 \/ t > cells)

ParseArgs(d, t) ==
    /\ pc = "args"
    /\ grid_dim' = d
    /\ cell_count' = d * d
    /\ IF ~dim_ok(d)
       THEN /\ pc' = "exit"
            /\ invalid_msgs' = invalid_msgs + 1
            /\ UNCHANGED <<target_count, local_sim>>
       ELSE /\ target_count' = t
            /\ IF targets_ok(t, d * d)
               THEN /\ pc' = "matrix"
                    /\ local_sim' = "True"
                    /\ UNCHANGED invalid_msgs
               ELSE /\ pc' = "exit"
                    /\ invalid_msgs' = invalid_msgs + 1
                    /\ UNCHANGED local_sim
    /\ UNCHANGED <<target_matrix, placed, result_matrix, row, col, targets_hit,
                   clear_cells_detected, cycle_executions, res_mem, ret,
                   sampler, sampler_runs, sim_backend, sampler_inst, comp_qc,
                   hw_failed, ran_on>>

(* ---- target placement ---- *)
InitMatrix ==
    /\ pc = "matrix"
    /\ target_matrix' = zeros(grid_dim)
    /\ placed' = 0
    /\ pc' = "place"
    /\ UNCHANGED <<grid_dim, target_count, cell_count, result_matrix, row, col,
                   targets_hit, clear_cells_detected, cycle_executions,
                   res_mem, ret, sampler, sampler_runs>>
    /\ UNCHANGED <<invalid_msgs, backend_vars, ran_on>>

\* every drawn cell taken for free
is_free_always(v) == TRUE

\* target_matrix[r][col] != 1
is_free(v) == v # 1

\* one iteration of the placement loop, with the draw (r, c)
PlaceTarget(r, c) ==
    /\ pc = "place"
    /\ placed < target_count
    /\ IF is_free(target_matrix[<<r, c>>])
       THEN /\ target_matrix' = [target_matrix EXCEPT ![<<r, c>>] = 1]
            /\ placed' = placed + 1
       ELSE UNCHANGED <<target_matrix, placed>>
    /\ UNCHANGED <<pc, grid_dim, target_count, cell_count, result_matrix, row,
                   col, targets_hit, clear_cells_detected, cycle_executions,
                   res_mem, ret, sampler, sampler_runs>>
    /\ UNCHANGED <<invalid_msgs, backend_vars, ran_on>>

\* the placement loop ends; the result matrix is created
InitResult ==
    /\ pc = "place"
    /\ ~(placed < target_count)
    /\ result_matrix' = zeros(grid_dim)
    /\ pc' = "backend"
    /\ UNCHANGED <<grid_dim, target_count, cell_count, target_matrix, placed,
                   row, col, targets_hit, clear_cells_detected,
                   cycle_executions, res_mem, ret, sampler, sampler_runs>>
    /\ UNCHANGED <<invalid_msgs, backend_vars, ran_on>>

(* ---- backend selection ---- *)
\* if local_sim: the simulator; else the hardware, and the simulator when
\* any statement of the try block raises.  hw_up tells whether the hardware
\* service, the pass manager and SamplerV2 all succeed.
SelectBackend(hw_up) ==
    /\ pc = "backend"
    /\ IF local_sim = "True"
       THEN /\ sim_backend' = TRUE /\ comp_qc' = "sim"
            /\ UNCHANGED <<local_sim, sampler_inst, hw_failed>>
       ELSE IF hw_up
            THEN /\ sampler_inst' = TRUE /\ comp_qc' = "hw"
                 /\ UNCHANGED <<local_sim, sim_backend, hw_failed>>
            ELSE /\ hw_failed' = TRUE
                 /\ local_sim' = "True"
                 /\ sim_backend' = TRUE /\ comp_qc' = "sim"
                 /\ UNCHANGED sampler_inst
    /\ pc' = "while"
    /\ UNCHANGED <<grid_dim, target_count, cell_count, target_matrix, placed,
                   result_matrix, row, col, targets_hit, clear_cells_detected,
                   cycle_executions, res_mem, ret, sampler, sampler_runs,
                   invalid_msgs, ran_on>>

(* ---- the scan ---- *)
\* exec_quantum always using the hardware sampler
exec_backend_hw == "sampler_inst"

\* the backend exec_quantum runs the circuit on
exec_backend == IF local_sim = "True" THEN "sim_backend" ELSE "sampler_inst"

\* while clear_cells_detected + target_count < cell_count
WhileTest ==
    /\ pc = "while"
    /\ IF scan_done(clear_cells_detected)
       THEN pc' = "done" /\ UNCHANGED row
       ELSE pc' = "for_row" /\ row' = 0
    /\ UNCHANGED <<grid_dim, target_count, cell_count, target_matrix, placed,
                   result_matrix, col, targets_hit, clear_cells_detected,
                   cycle_executions, res_mem, ret, sampler, sampler_runs>>
    /\ UNCHANGED <<invalid_msgs, backend_vars, ran_on>>

\* for row in range(grid_dim), and the test that opens its body
ForRow ==
    /\ pc = "for_row"
    /\ IF row >= grid_dim \/ scan_done(clear_cells_detected)
       THEN pc' = "while" /\ UNCHANGED col
       ELSE pc' = "for_col" /\ col' = 0
    /\ UNCHANGED <<grid_dim, target_count, cell_count, target_matrix, placed,
                   result_matrix, row, targets_hit, clear_cells_detected,
                   cycle_executions, res_mem, ret, sampler, sampler_runs>>
    /\ UNCHANGED <<invalid_msgs, backend_vars, ran_on>>

\* for col in range(grid_dim) is exhausted: on to the next row
EndRow ==
    /\ pc = "for_col"
    /\ col >= grid_dim
    /\ row' = row + 1
    /\ pc' = "for_row"
    /\ UNCHANGED <<grid_dim, target_count, cell_count, target_matrix, placed,
                   result_matrix, col, targets_hit, clear_cells_detected,
                   cycle_executions, res_mem, ret, sampler, sampler_runs>>
    /\ UNCHANGED <<invalid_msgs, backend_vars, ran_on>>

\* a cell that is no longer unknown is passed over
SkipCell ==
    /\ pc = "for_col"
    /\ col < grid_dim
    /\ ~is_unknown(result_matrix[<<row, col>>])
    /\ col' = col + 1
    /\ UNCHANGED <<pc, grid_dim, target_count, cell_count, target_matrix,
                   placed, result_matrix, row, targets_hit,
                   clear_cells_detected, cycle_executions, res_mem, ret,
                   sampler, sampler_runs>>
    /\ UNCHANGED <<invalid_msgs, backend_vars, ran_on>>

\* an unknown cell is probed: probe_cell runs the circuit once, the result
\* is stored, and the loop goes on or breaks
ProbeCell(mem, capped) ==
    /\ pc = "for_col"
    /\ col < grid_dim
    /\ is_unknown(result_matrix[<<row, col>>])
    /\ capped \/ cycle_executions < MaxProbes
    /\ LET has_target == has_target_at(row, col)
       IN  /\ cycle_executions' = IF capped
                                  THEN count_probe_capped(cycle_executions)
                                  ELSE count_probe(cycle_executions)
           /\ sampler_runs' = IF capped
                              THEN count_probe_capped(sampler_runs)
                              ELSE sampler_runs + 1
           /\ ran_on' = ran_on \cup {exec_backend}
           /\ res_mem' = mem
           /\ targets_hit' = count_hit(has_target, mem, targets_hit)
           /\ clear_cells_detected' =
                  count_clear(has_target, mem, clear_cells_detected)
           /\ ret' = <<observe(has_target, mem)>>
           /\ result_matrix' = [result_matrix EXCEPT ![<<row, col>>] =
                                    observe(has_target, mem)]
    /\ IF break_after_probe(clear_cells_detected')
       THEN pc' = "for_row" /\ row' = row + 1 /\ UNCHANGED col
       ELSE col' = col + 1 /\ UNCHANGED <<pc, row>>
    /\ UNCHANGED <<grid_dim, target_count, cell_count, target_matrix, placed,
                   sampler>>
    /\ UNCHANGED <<invalid_msgs, backend_vars>>

(* ---- results display ---- *)
\* the recount taking every classified cell for a hit
recount_hits_nonzero(m) == Cardinality({c \in DOMAIN m : m[c] # 0})

\* np.sum(result_matrix == 1)
recount_hits(m) == Cardinality({c \in DOMAIN m : m[c] = 1})

\* the matrices are printed, targets_hit is recounted from the result matrix
\* and the three figures are printed
ShowResults ==
    /\ pc = "done"
    /\ targets_hit' = recount_hits(result_matrix)
    /\ pc' = "shown"
    /\ UNCHANGED <<grid_dim, target_count, cell_count, target_matrix, placed,
                   result_matrix, row, col, clear_cells_detected,
                   cycle_executions, res_mem, ret, sampler, sampler_runs,
                   invalid_msgs, backend_vars, ran_on>>

Probe ==
    /\ pc = "for_col" /\ col < grid_dim
    /\ \E mem \in exec_quantum(sampler, clbits(has_target_at(row, col))) :
           ProbeCell(mem, FALSE)

Next ==
    \/ \E d \in DimInputs : \E t \in TargetInputs(d * d) : ParseArgs(d, t)
    \/ InitMatrix
    \/ \E r \in 0 .. grid_dim - 1 : \E c \in 0 .. grid_dim - 1 : PlaceTarget(r, c)
    \/ InitResult
    \/ \E hw_up \in BOOLEAN : SelectBackend(hw_up)
    \/ WhileTest
    \/ ForRow
    \/ EndRow
    \/ SkipCell
    \/ Probe
    \/ ShowResults

Spec == Init /\ [][Next]_vars

(* ---- the scan alone, from a placed grid, with the counters capped ---- *)
\* the setup is over and the local simulator was selected
LocalSetup ==
    /\ invalid_msgs = 0
    /\ local_sim = "True"
    /\ sim_backend = TRUE /\ sampler_inst = FALSE /\ comp_qc = "sim"
    /\ hw_failed = FALSE
    /\ ran_on = {}

ones(m) == Cardinality({c \in DOMAIN m : m[c] = 1})

FairTargets(cells) == {1, cells - 1}

\* the state in which the scan loop is entered: target_count targets are
\* placed and the result matrix is all zero
FairInit ==
    /\ pc = "while"
    /\ grid_dim = min_grid_dim
    /\ cell_count = grid_dim * grid_dim
    /\ target_count \in FairTargets(cell_count)
    /\ target_matrix \in {m \in [Cells(grid_dim) -> {0, 1}] : ones(m) = target_count}
    /\ placed = target_count
    /\ result_matrix = zeros(grid_dim)
    /\ row = 0 /\ col = 0
    /\ targets_hit = 0 /\ clear_cells_detected = 0 /\ cycle_executions = 0
    /\ res_mem = NoMem /\ ret = NoRet
    /\ sampler \in Samplers
    /\ sampler_runs = 0
    /\ LocalSetup

ProbeCapped ==
    /\ pc = "for_col" /\ col < grid_dim
    /\ \E mem \in exec_quantum(sampler, clbits(has_target_at(row, col))) :
           ProbeCell(mem, TRUE)

\* the probe of a non-target cell in which the sampler returns the excited bit
ProbeClear ==
    /\ pc = "for_col" /\ col < grid_dim
    /\ ~has_target_at(row, col)
    /\ \E mem \in exec_quantum(sampler, 1) :
           mem[1][1] = 1 /\ ProbeCell(mem, TRUE)

FairNext ==
    \/ WhileTest
    \/ ForRow
    \/ EndRow
    \/ SkipCell
    \/ ProbeCapped

\* The interpreter keeps running and every sampler call returns (weak
\* fairness of the step); a non-target cell that is probed again and again
\* is eventually measured excited (strong fairness of ProbeClear).
FairSpec ==
    FairInit /\ [][FairNext]_vars /\ WF_vars(FairNext) /\ SF_vars(ProbeClear)

(* ---- one probe_cell call on every bit string of the bounded set ---- *)
RECURSIVE PosSets(_, _)
PosSets(n, k) ==
    IF k = 0
    THEN {{}}
    ELSE LET P == PosSets(n, k - 1)
         IN  P \cup {T \cup {i} : T \in P, i \in 1 .. n}

BitStrings(n) ==
    {[i \in 1 .. n |-> IF i \in T THEN 1 ELSE 0] : T \in PosSets(n, MaxOnes)}
        \cup {AllBits(n, 1)}

\* the first sweep has reached cell (0, 0)
OracleInit ==
    /\ pc = "for_col"
    /\ grid_dim = min_grid_dim
    /\ cell_count = grid_dim * grid_dim
    /\ target_count \in FairTargets(cell_count)
    /\ target_matrix \in {m \in [Cells(grid_dim) -> {0, 1}] : ones(m) = target_count}
    /\ placed = target_count
    /\ result_matrix = zeros(grid_dim)
    /\ row = 0 /\ col = 0
    /\ targets_hit = 0 /\ clear_cells_detected = 0 /\ cycle_executions = 0
    /\ res_mem = NoMem /\ ret = NoRet
    /\ sampler = "aer"
    /\ sampler_runs = 0
    /\ LocalSetup

OracleProbe ==
    /\ pc = "for_col" /\ row = 0 /\ col = 0 /\ ret = NoRet
    /\ \E bits \in BitStrings(clbits(has_target_at(row, col))) :
           ProbeCell(<<bits>>, FALSE)

OracleSpec == OracleInit /\ [][OracleProbe]_vars

(* ======================= the claims ======================= *)
ScanPcs == {"while", "for_row", "for_col", "done"}
Scanning == pc \in ScanPcs
Done == pc = "done"
TermCond == clear_cells_detected + target_count >= cell_count
Grid == DOMAIN result_matrix
Unknowns == {c \in Grid : result_matrix[c] = 0}
Hits == {c \in Grid : result_matrix[c] = 1}
Clears == {c \in Grid : result_matrix[c] = -1}
\* a step taken from a state in which the scan stands at an unknown cell
AtUnknownCell ==
    /\ pc = "for_col" /\ col < grid_dim
    /\ result_matrix[<<row, col>>] = 0

\* C1: in every reachable state every cell of the result matrix marked hit
\* (1) is a target of the target matrix and every cell marked clear (-1) is
\* not a target.
C1_NoFalseClassification ==
    \A c \in Grid :
        /\ result_matrix[c] = 1 => target_matrix[c] = 1
        /\ result_matrix[c] = -1 => target_matrix[c] = 0

C1_Witness ==
    /\ \E c \in Grid : result_matrix[c] = 1
    /\ \E c \in Grid : result_matrix[c] = -1
    /\ \E c \in Grid : result_matrix[c] = 0 /\ target_matrix[c] = 0
    /\ \E c \in Grid : result_matrix[c] = 0 /\ target_matrix[c] = 1

\* C2: throughout the scan clear_cells_detected + targets_hit + the number of
\* unknown cells is cell_count, and clear_cells_detected is at most
\* cell_count - target_count.
C2_CounterSum ==
    Scanning =>
        /\ clear_cells_detected + targets_hit + Cardinality(Unknowns) = cell_count
        /\ clear_cells_detected <= cell_count - target_count

C2_Witness ==
    /\ Scanning
    /\ clear_cells_detected > 0 /\ targets_hit > 0
    /\ Cardinality(Unknowns) > 0
    /\ cycle_executions > clear_cells_detected + targets_hit

\* C3: the scan is left exactly when clear_cells_detected + target_count >=
\* cell_count: in the final state the condition holds, every non-target cell
\* is clear, clear_cells_detected = cell_count - target_count and every
\* target cell is hit or unknown; while the condition is false the run is not
\* finished; once it is true the loop body is not entered again and the loop
\* tests lead to the final state.
C3_StopState ==
    /\ Done => /\ TermCond
               /\ clear_cells_detected = cell_count - target_count
               /\ Cardinality(Clears) = cell_count - target_count
               /\ \A c \in Grid : target_matrix[c] = 0 => result_matrix[c] = -1
               /\ \A c \in Grid : target_matrix[c] = 1 => result_matrix[c] \in {0, 1}
    /\ (Scanning /\ TermCond) => pc \in {"for_row", "while", "done"}

C3_ExitStep ==
    /\ (pc = "while" /\ TermCond) => pc' = "done"
    /\ (pc = "for_row" /\ TermCond) => pc' = "while"
    /\ (Scanning /\ ~TermCond) => pc' # "done"

C3_StopsExactlyWhenAllClear == [](C3_StopState) /\ [][C3_ExitStep]_vars

C3_Witness ==
    /\ Done
    /\ 1 < target_count /\ target_count < cell_count
    /\ targets_hit = 1
    /\ \E c \in Grid : target_matrix[c] = 1 /\ result_matrix[c] = 0

\* C4: no probe is executed in a state in which clear_cells_detected +
\* target_count >= cell_count: from such a state on the counters and the
\* result matrix stay as they are, and when not every cell is a target the
\* last probe executed returned clear.
C4_NoProbeStep ==
    (Scanning /\ TermCond) =>
        UNCHANGED <<cycle_executions, sampler_runs, result_matrix, targets_hit,
                    clear_cells_detected, ret, res_mem>>

C4_LastProbeClear ==
    (Scanning /\ TermCond /\ target_count < cell_count) => ret = <<-1>>

C4_StopsMidSweep == [](C4_LastProbeClear) /\ [][C4_NoProbeStep]_vars

\* The run is over and a cell behind the last probed one, (row - 1, col), is
\* still unknown.
C4_Witness ==
    /\ Done /\ ret = <<-1>>
    /\ \E c \in Unknowns :
           \/ c[1] > row - 1
           \/ c[1] = row - 1 /\ c[2] > col

\* C5: with fewer targets than cells, when every sampler call returns and a
\* non-target cell probed again and again is eventually measured excited,
\* the run reaches its final state.
C5_Terminates ==
    (sampler = "aer" /\ target_count < cell_count) => <>Done

C5_Witness ==
    /\ Done /\ sampler = "aer" /\ target_count < cell_count
    /\ cycle_executions = CountCap
    /\ \E c \in Unknowns : target_matrix[c] = 1

\* C6: a cell of the result matrix changes only from unknown to clear or
\* hit; a cell that is clear or hit keeps its value in every later step, and
\* a probe is only ever made of a cell that is unknown.
C6_Step ==
    /\ \A c \in Grid : result_matrix[c] # 0 => result_matrix'[c] = result_matrix[c]
    /\ \A c \in Grid : result_matrix'[c] \in {-1, 0, 1}
    /\ cycle_executions' # cycle_executions => AtUnknownCell

C6_Monotone == [][C6_Step]_vars

\* A resolved cell has been passed over: the last probe was undetermined,
\* so the resolved cell just before the column iterator was not probed in
\* this sweep.
C6_Witness ==
    /\ pc = "for_col" /\ col >= 1 /\ col <= grid_dim
    /\ result_matrix[<<row, col - 1>>] # 0
    /\ ret = <<0>>

\* C7: cycle_executions grows by exactly 1 in every probe, whatever the
\* outcome, and changes in no other step; every probe runs the sampler
\* exactly once, so cycle_executions is the number of sampler runs.
C7_Step ==
    IF AtUnknownCell
    THEN /\ cycle_executions' = cycle_executions + 1
         /\ sampler_runs' = sampler_runs + 1
         /\ ret' \in {<<-1>>, <<0>>, <<1>>}
    ELSE UNCHANGED <<cycle_executions, sampler_runs>>

C7_OnePerProbe == [](cycle_executions = sampler_runs) /\ [][C7_Step]_vars

C7_Witness ==
    /\ targets_hit > 0 /\ clear_cells_detected > 0
    /\ cycle_executions >= targets_hit + clear_cells_detected + 2
    /\ cycle_executions = sampler_runs

\* C8: when every cell is a target the scan ends before any probe: the
\* while test leads straight to the final state, with cycle_executions = 0,
\* targets_hit = 0 and every cell unknown.
C8_State ==
    (Scanning /\ target_count = cell_count) =>
        /\ pc \in {"while", "done"}
        /\ cycle_executions = 0 /\ targets_hit = 0 /\ sampler_runs = 0
        /\ Unknowns = Cells(grid_dim)

C8_Step == (pc = "while" /\ target_count = cell_count) => pc' = "done"

C8_AllTargetsNoProbe == [](C8_State) /\ [][C8_Step]_vars

C8_Witness ==
    /\ Done /\ target_count = cell_count /\ cell_count = min_grid_dim * min_grid_dim
    /\ cycle_executions = 0
    /\ Unknowns = Cells(grid_dim)

\* C9: with the sampler that always returns the non-excited bit and fewer
\* targets than cells, every probe is undetermined, every cell stays
\* unknown, the final state is never reached and probes are made again and
\* again.
C9_State ==
    (sampler = "stub" /\ target_count < cell_count) =>
        /\ ~Done
        /\ Unknowns = Cells(grid_dim)
        /\ ret \in {NoRet, <<0>>}
        /\ targets_hit = 0 /\ clear_cells_detected = 0

C9_ProbeStep == AtUnknownCell /\ ret' = <<0>> /\ col' = col + 1

C9_StubNeverDone ==
    /\ [](C9_State)
    /\ (sampler = "stub" /\ target_count < cell_count)
           => []<><<C9_ProbeStep>>_vars

C9_Witness ==
    /\ sampler = "stub" /\ target_count < cell_count
    /\ cycle_executions = CountCap
    /\ pc = "for_col" /\ col = 0 /\ row = 0

\* C10: probe_cell of a target cell returns hit exactly when at least one
\* of the cycle_count bits is 1 and undetermined otherwise, never clear;
\* probe_cell of a non-target cell returns clear exactly when its single bit
\* is 1 and undetermined otherwise, never hit.
C10_Asymmetric ==
    ret # NoRet =>
        IF target_matrix[<<0, 0>>] = 1
        THEN /\ Len(res_mem[1]) = cycle_count
             /\ ret = <<1>> <=> (\E i \in 1 .. cycle_count : res_mem[1][i] = 1)
             /\ ret \in {<<0>>, <<1>>}
             /\ result_matrix[<<0, 0>>] = ret[1]
        ELSE /\ Len(res_mem[1]) = 1
             /\ ret = <<-1>> <=> res_mem[1][1] = 1
             /\ ret \in {<<-1>>, <<0>>}
             /\ result_matrix[<<0, 0>>] = ret[1]

C10_Witness ==
    /\ ret = <<1>>
    /\ res_mem[1][1] = 0
    /\ res_mem[1][cycle_count] = 0
    /\ Cardinality({i \in 1 .. cycle_count : res_mem[1][i] = 1}) = MaxOnes

(* ---- argument handling and target placement alone ---- *)
\* a draw that hits a free cell
AcceptDraw ==
    \E r \in 0 .. grid_dim - 1 : \E c \in 0 .. grid_dim - 1 :
        /\ pc = "place" /\ target_matrix[<<r, c>>] # 1
        /\ PlaceTarget(r, c)

PlaceNext ==
    \/ \E d \in DimInputs : \E t \in TargetInputs(d * d) : ParseArgs(d, t)
    \/ InitMatrix
    \/ \E r \in 0 .. grid_dim - 1 : \E c \in 0 .. grid_dim - 1 : PlaceTarget(r, c)
    \/ InitResult

\* The interpreter keeps running, and the random draws are fair: while a
\* free cell is left, a free cell is eventually drawn.
PlaceSpec ==
    Init /\ [][PlaceNext]_vars /\ WF_vars(PlaceNext) /\ WF_vars(AcceptDraw)

\* C11: for a valid dimension and target count the placement loop keeps
\* placed equal to the number of targets in the target matrix, never above
\* target_count, and under fair draws it ends with exactly target_count
\* targets and cell_count - target_count free cells.
C11_Placed ==
    /\ pc = "place" =>
          /\ placed = ones(target_matrix)
          /\ placed <= target_count
          /\ DOMAIN target_matrix = Cells(grid_dim)
    /\ pc = "backend" =>
          /\ ones(target_matrix) = target_count
          /\ placed = target_count
          /\ Cardinality({c \in Cells(grid_dim) : target_matrix[c] = 0})
                 = cell_count - target_count

C11_Valid ==
    /\ pc = "matrix"
    /\ min_grid_dim <= grid_dim /\ grid_dim <= max_grid_dim
    /\ 1 <= target_count /\ target_count <= grid_dim * grid_dim

C11_PlacementExact == [](C11_Placed) /\ (C11_Valid ~> pc = "backend")

C11_Witness ==
    /\ pc = "backend"
    /\ target_count = cell_count - 1
    /\ ones(target_matrix) = target_count
    /\ target_matrix[<<0, 0>>] = 0

(* ---- the scan with a sampler that can fail ---- *)
\* results that are no string of 0s and 1s: the empty string, and a string
\* of another character
Malformed(n) == {<<<< >>>>, <<[i \in 1 .. n |-> 2]>>}

\* res_mem[0][0] raises IndexError on an empty string
index_error(has_target, mem) == ~has_target /\ Len(mem[1]) = 0

\* an exception leaves probe_cell and the scan loop: nothing catches it, the
\* script ends.  The counter was incremented before the call; the call has
\* no result and probe_cell returns nothing.
Abort(mem) ==
    /\ cycle_executions < MaxProbes
    /\ cycle_executions' = count_probe(cycle_executions)
    /\ sampler_runs' = sampler_runs + 1
    /\ ran_on' = ran_on \cup {exec_backend}
    /\ res_mem' = mem
    /\ ret' = NoRet
    /\ pc' = "aborted"
    /\ UNCHANGED <<grid_dim, target_count, cell_count, target_matrix, placed,
                   result_matrix, row, col, targets_hit, clear_cells_detected,
                   sampler, invalid_msgs, backend_vars>>

\* exec_quantum raises
SamplerRaises ==
    /\ pc = "for_col" /\ col < grid_dim
    /\ is_unknown(result_matrix[<<row, col>>])
    /\ Abort(NoMem)

\* exec_quantum returns a malformed result
ProbeFaulty ==
    /\ pc = "for_col" /\ col < grid_dim
    /\ is_unknown(result_matrix[<<row, col>>])
    /\ \E mem \in Malformed(clbits(has_target_at(row, col))) :
           IF index_error(has_target_at(row, col), mem)
           THEN Abort(mem)
           ELSE ProbeCell(mem, FALSE)

FailNext ==
    \/ WhileTest
    \/ ForRow
    \/ EndRow
    \/ SkipCell
    \/ Probe
    \/ SamplerRaises
    \/ ProbeFaulty

FailSpec == FairInit /\ [][FailNext]_vars

\* the result of one shot of a circuit with n classical bits is a list of
\* one string of n characters 0 or 1
WellFormed(mem, n) ==
    /\ Len(mem) = 1
    /\ Len(mem[1]) = n
    /\ \A i \in 1 .. n : mem[1][i] \in {0, 1}

\* C12: a sampler call that raises, or that returns a result that is neither
\* the excited nor the non-excited value, aborts the run: a probe whose
\* sampler result is not a well-formed bit string never goes on as a normal
\* hit, clear or undetermined outcome.
C12_Step ==
    (AtUnknownCell /\ cycle_executions' # cycle_executions
        /\ ~WellFormed(res_mem', clbits(target_matrix[<<row, col>>] = 1)))
    => pc' = "aborted"

C12_SamplerFaultFatal == [][C12_Step]_vars

\* C19: when the sampler raises during a probe the run aborts; the probe is
\* not retried (no step follows the abort); the result matrix, targets_hit
\* and clear_cells_detected are as before the probe and cycle_executions
\* has been incremented for the failed probe.
C19_Step ==
    /\ (AtUnknownCell /\ ret' = NoRet) =>
          /\ pc' = "aborted"
          /\ sampler_runs' = sampler_runs + 1
          /\ cycle_executions' = cycle_executions + 1
          /\ UNCHANGED <<result_matrix, targets_hit, clear_cells_detected,
                         target_matrix, row, col>>
    /\ pc # "aborted"

C19_AbortState ==
    pc = "aborted" =>
        /\ ret = NoRet
        /\ cycle_executions >= 1
        /\ cycle_executions > targets_hit + clear_cells_detected
        /\ result_matrix[<<row, col>>] = 0
        /\ clear_cells_detected + targets_hit + Cardinality(Unknowns) = cell_count

C19_RaiseAborts == [](C19_AbortState) /\ [][C19_Step]_vars

\* the sampler raised (no result at all) after some cells were resolved
C19_Witness ==
    /\ pc = "aborted" /\ res_mem = NoMem
    /\ targets_hit > 0 /\ clear_cells_detected > 0

(* ---- both input paths: command line and interactive ---- *)
SetupTargets(cells) == {0, cells - 1, cells + 1}
SimAnswers == {"y", "n", "x"}

\* the script starts with arguments (pc = "args") or without
SetupInit ==
    /\ pc \in {"args", "input_dim"}
    /\ grid_dim = 0 /\ target_count = 0 /\ cell_count = 0
    /\ target_matrix = << >> /\ placed = 0
    /\ result_matrix = << >>
    /\ row = 0 /\ col = 0
    /\ targets_hit = 0 /\ clear_cells_detected = 0 /\ cycle_executions = 0
    /\ res_mem = NoMem /\ ret = NoRet
    /\ sampler = "aer"
    /\ sampler_runs = 0
    /\ invalid_msgs = 0
    /\ local_sim = "None"
    /\ sim_backend = FALSE /\ sampler_inst = FALSE /\ comp_qc = "none"
    /\ hw_failed = FALSE
    /\ ran_on = {}

\* while grid_dim == 0: one answer to the dimension prompt
InputDim(d) ==
    /\ pc = "input_dim"
    /\ IF dim_ok(d)
       THEN /\ grid_dim' = d
            /\ cell_count' = d * d
            /\ pc' = "input_targets"
            /\ UNCHANGED invalid_msgs
       ELSE /\ invalid_msgs < MaxInvalid
            /\ invalid_msgs' = invalid_msgs + 1
            /\ grid_dim' = 0
            /\ UNCHANGED <<cell_count, pc>>
    /\ UNCHANGED <<target_count, target_matrix, placed, result_matrix, row, col,
                   targets_hit, clear_cells_detected, cycle_executions,
                   res_mem, ret, sampler, sampler_runs, backend_vars, ran_on>>

\* while target_count == 0: one answer to the target prompt (a blank answer
\* draws a valid count)
InputTargets(t) ==
    /\ pc = "input_targets"
    /\ IF targets_ok(t, cell_count)
       THEN /\ target_count' = t
            /\ pc' = "input_sim"
            /\ UNCHANGED invalid_msgs
       ELSE /\ invalid_msgs < MaxInvalid
            /\ invalid_msgs' = invalid_msgs + 1
            /\ target_count' = 0
            /\ UNCHANGED pc
    /\ UNCHANGED <<grid_dim, cell_count, target_matrix, placed, result_matrix,
                   row, col, targets_hit, clear_cells_detected,
                   cycle_executions, res_mem, ret, sampler, sampler_runs,
                   backend_vars, ran_on>>

\* while local_sim is None: one answer to the simulation prompt
InputSim(a) ==
    /\ pc = "input_sim"
    /\ IF a = "y"
       THEN local_sim' = "True" /\ pc' = "matrix" /\ UNCHANGED invalid_msgs
       ELSE IF a = "n"
            THEN local_sim' = "False" /\ pc' = "matrix" /\ UNCHANGED invalid_msgs
            ELSE /\ invalid_msgs < MaxInvalid
                 /\ invalid_msgs' = invalid_msgs + 1
                 /\ local_sim' = "None"
                 /\ UNCHANGED pc
    /\ UNCHANGED <<grid_dim, target_count, cell_count, target_matrix, placed,
                   result_matrix, row, col, targets_hit, clear_cells_detected,
                   cycle_executions, res_mem, ret, sampler, sampler_runs,
                   sim_backend, sampler_inst, comp_qc, hw_failed, ran_on>>

SetupNext ==
    \/ \E d \in DimInputs : \E t \in SetupTargets(d * d) : ParseArgs(d, t)
    \/ \E d \in DimInputs : InputDim(d)
    \/ \E t \in SetupTargets(cell_count) : InputTargets(t)
    \/ \E a \in SimAnswers : InputSim(a)
    \/ InitMatrix
    \/ \E r \in 0 .. grid_dim - 1 : \E c \in 0 .. grid_dim - 1 : PlaceTarget(r, c)
    \/ InitResult
    \/ \E hw_up \in BOOLEAN : SelectBackend(hw_up)
    \/ WhileTest
    \/ ForRow
    \/ EndRow
    \/ SkipCell
    \/ Probe
    \/ ShowResults

SetupSpec == SetupInit /\ [][SetupNext]_vars

SetupPcs == {"args", "input_dim", "input_targets", "input_sim", "exit"}

\* C13 as stated: on every input path an out-of-range dimension or target
\* count is an error that is not retried: the step that rejects it ends the
\* script.
C13_RejectStep ==
    (pc \in {"args", "input_dim", "input_targets"} /\ invalid_msgs' > invalid_msgs)
        => pc' = "exit"

C13_RejectedNotRetried == [][C13_RejectStep]_vars

\* C13, amended: no run starts with an out-of-range dimension or target
\* count, on either input path: while the configuration is not accepted no
\* target is placed and no probe is executed, and past the setup the
\* dimension and the target count are in range.  On the command line the
\* rejection ends the script at once and for good; at the interactive
\* prompts the value is reset and the same prompt is asked again.
C13_State ==
    /\ pc \in SetupPcs =>
          /\ target_matrix = << >> /\ placed = 0
          /\ cycle_executions = 0 /\ sampler_runs = 0
    /\ pc \notin SetupPcs =>
          /\ min_grid_dim <= grid_dim /\ grid_dim <= max_grid_dim
          /\ cell_count = grid_dim * grid_dim
          /\ 1 <= target_count /\ target_count <= cell_count
    /\ pc = "exit" => invalid_msgs = 1

C13_Step ==
    /\ (pc = "args" /\ invalid_msgs' > invalid_msgs) => pc' = "exit"
    /\ pc # "exit"
    /\ (pc = "input_dim" /\ invalid_msgs' > invalid_msgs)
          => (pc' = "input_dim" /\ grid_dim' = 0)
    /\ (pc = "input_targets" /\ invalid_msgs' > invalid_msgs)
          => (pc' = "input_targets" /\ target_count' = 0)

C13_InvalidNeverRuns == [](C13_State) /\ [][C13_Step]_vars

\* an answer to the dimension or the target prompt was rejected, a later one
\* was accepted, and the run is probing
C13_Witness ==
    /\ invalid_msgs > 0
    /\ pc = "for_col" /\ cycle_executions > 0
    /\ ran_on = {"sampler_inst"}

\* C14: when the hardware is requested and not available, the simulator is
\* substituted in the backend selection, before any probe; every probe of a
\* run is executed by one and the same backend, which is initialised and for
\* which the circuits were compiled, and the selection is never changed
\* afterwards.
C14_State ==
    /\ Cardinality(ran_on) <= 1
    /\ "sim_backend" \in ran_on => (sim_backend /\ comp_qc = "sim")
    /\ "sampler_inst" \in ran_on => (sampler_inst /\ comp_qc = "hw")
    /\ hw_failed =>
          /\ local_sim = "True" /\ sim_backend /\ ~sampler_inst
          /\ comp_qc = "sim"
          /\ ran_on \subseteq {"sim_backend"}
    /\ pc \in {"while", "for_row", "for_col", "done", "shown"} =>
          /\ local_sim \in {"True", "False"}
          /\ local_sim = "True" => (sim_backend /\ comp_qc = "sim")
          /\ local_sim = "False" => (sampler_inst /\ comp_qc = "hw")
    /\ pc \in SetupPcs \cup {"matrix", "place", "backend"} =>
          (ran_on = {} /\ cycle_executions = 0)

C14_Step ==
    /\ (pc = "backend" /\ local_sim = "False" /\ ~sampler_inst') =>
          (hw_failed' /\ local_sim' = "True" /\ sim_backend' /\ ran_on' = {})
    /\ pc \in {"while", "for_row", "for_col", "done", "shown"} =>
          UNCHANGED backend_vars
    /\ (AtUnknownCell /\ cycle_executions' # cycle_executions) =>
          ran_on' = {IF local_sim = "True" THEN "sim_backend" ELSE "sampler_inst"}

C14_OneReadySampler == [](C14_State) /\ [][C14_Step]_vars

\* the hardware was requested and failed, and probes have run on the
\* simulator
C14_Witness ==
    /\ hw_failed
    /\ ran_on = {"sim_backend"}
    /\ cycle_executions > 1

\* C15: within a sweep the cells are visited in row-major order, so each is
\* visited at most once per sweep; a probe is made only of the cell the scan
\* stands at and only if it is unknown, and the circuit run and the value
\* returned are those of that cell's own entry of the target matrix.
C15_Order ==
    /\ (pc = "while" /\ pc' # "while") =>
          (pc' = "done" \/ (pc' = "for_row" /\ row' = 0))
    /\ (pc = "for_row" /\ pc' # "for_row") =>
          /\ row' = row
          /\ pc' = "while" \/ (pc' = "for_col" /\ col' = 0 /\ row < grid_dim)
    /\ (pc = "for_col" /\ pc' = "for_col" /\ col' # col) =>
          (row' = row /\ col' = col + 1 /\ col < grid_dim)
    /\ (pc = "for_col" /\ pc' # "for_col") =>
          (pc' = "for_row" /\ row' = row + 1)

C15_ProbeOwnCell ==
    (Scanning /\ (cycle_executions' # cycle_executions
                    \/ result_matrix' # result_matrix)) =>
        /\ AtUnknownCell
        /\ cycle_executions' = cycle_executions + 1
        /\ \A c \in Grid \ {<<row, col>>} : result_matrix'[c] = result_matrix[c]
        /\ Len(res_mem'[1]) = clbits(target_matrix[<<row, col>>] = 1)
        /\ ret' = <<observe(target_matrix[<<row, col>>] = 1, res_mem')>>
        /\ result_matrix'[<<row, col>>] = ret'[1]

C15_Skip ==
    (pc = "for_col" /\ col < grid_dim /\ result_matrix[<<row, col>>] # 0) =>
        (cycle_executions' = cycle_executions /\ result_matrix' = result_matrix)

C16_Cell == <<row, col>>

C16_Step ==
    cycle_executions' # cycle_executions =>
        /\ cycle_executions' = cycle_executions + 1
        /\ UNCHANGED <<target_matrix, grid_dim, target_count, cell_count>>
        /\ \A c \in Grid \ {C16_Cell} : result_matrix'[c] = result_matrix[c]
        /\ ret' \in {<<0>>, <<1>>, <<-1>>}
        /\ ret' = <<0>> =>
              UNCHANGED <<result_matrix, targets_hit, clear_cells_detected>>
        /\ ret' = <<1>> =>
              /\ result_matrix' = [result_matrix EXCEPT ![C16_Cell] = 1]
              /\ targets_hit' = targets_hit + 1
              /\ UNCHANGED clear_cells_detected
        /\ ret' = <<-1>> =>
              /\ result_matrix' = [result_matrix EXCEPT ![C16_Cell] = -1]
              /\ clear_cells_detected' = clear_cells_detected + 1
              /\ UNCHANGED targets_hit

C16_ProbeFrame == [][C16_Step]_vars

\* an undetermined probe after a hit and a clear
C16_Witness ==
    /\ Scanning
    /\ ret = <<0>>
    /\ targets_hit > 0
    /\ clear_cells_detected > 0
    /\ Unknowns # {}

\* C17: when the scan has ended, target_count - targets_hit is the number of
\* unknown cells, every unknown cell is a target, and targets_hit lies
\* between 0 and target_count.
C17_Located ==
    pc \in {"done", "shown"} =>
        /\ target_count - targets_hit = Cardinality(Unknowns)
        /\ \A c \in Unknowns : target_matrix[c] = 1
        /\ 0 <= targets_hit /\ targets_hit <= target_count

C17_Witness ==
    /\ pc = "shown"
    /\ 0 < targets_hit /\ targets_hit < target_count
    /\ Unknowns # {}

\* C18: after every probe targets_hit is the number of cells equal to 1 and
\* clear_cells_detected the number of cells equal to -1, so the recount of
\* the results display does not change targets_hit.
C18_State ==
    /\ targets_hit = Cardinality(Hits)
    /\ clear_cells_detected = Cardinality(Clears)

C18_Recount ==
    (pc = "done" /\ pc' = "shown") =>
        /\ targets_hit' = targets_hit
        /\ targets_hit' = Cardinality({c \in Grid : result_matrix'[c] = 1})

C18_RecountNoOp == [](C18_State) /\ [][C18_Recount]_vars

C18_Witness ==
    /\ pc = "shown"
    /\ targets_hit = 2
    /\ clear_cells_detected > 0

====
